---- MODULE Spec2Model ----
(***************************************************************************)
(* Model of the log watcher core: ErrorHandler (error_handler.py),         *)
(* StateManager (watcher_models.py) and LogFileManager                     *)
(* (log_file_manager.py).                                                  *)
(*                                                                         *)
(* Strings that the code concatenates or prefix-tests (component names,    *)
(* error kinds, context keys) are sequences of characters, so that         *)
(* f"{component}_{error_type}" and key.startswith(component) are computed  *)
(* as the code computes them.  Times are whole seconds.                    *)
(***************************************************************************)
EXTENDS Integers, Sequences, FiniteSets, TLC

VARIABLES
    now,            \* time.time()
    error_contexts, \* ErrorHandler.error_contexts: context_key -> ErrorContext
    state,          \* StateManager.state (WatcherState)
    disk,           \* the state files: primary, backup and temporary path
    last,           \* the last ErrorHandler call and what it returned
    fs,             \* the watched path and the files that were ever at it
    wl              \* LogFileManager fields and the position of watch_file

vars == <<now, error_contexts, state, disk, last, fs, wl>>

----------------------------------------------------------------------------
(* Bounds of the model *)

MaxTime == 100          \* the clock is not advanced beyond this
TickStep == 30          \* seconds that pass in one Tick
MaxAttempts == 7        \* failures counted in the live ErrorContext entries
MaxContexts == 2        \* live ErrorContext entries at a time
MaxPriorAttempts == 12  \* failures already counted when DecisionSpec starts
MaxLines == 2           \* lines written to one file
MaxInodes == 2          \* files that are ever at the watched path
MaxRestarts == 1        \* restarts of the process
MaxWait == 2            \* the time up to which the wait for a missing file is followed

----------------------------------------------------------------------------
(* Program constants *)

cb_failure_threshold == 5
cb_timeout == 60
base_backoff == 1
max_backoff == 30
DefaultMaxRetries == 3
restart_pause == 2      \* time.sleep(2) after RESTART_COMPONENT
circuit_pause == 10     \* time.sleep(10) after CIRCUIT_BREAKER
rotation_slack == 1000  \* the buffer of detect_rotation's size check

----------------------------------------------------------------------------
(* Strings *)

Underscore == <<"_">>

file_manager == <<"f","i","l","e","_","m","a","n","a","g","e","r">>

stream_error == <<"s","t","r","e","a","m","_","e","r","r","o","r">>
permission_error == <<"p","e","r","m","i","s","s","i","o","n","_","e","r","r","o","r">>
file_not_found == <<"f","i","l","e","_","n","o","t","_","f","o","u","n","d">>
network_error == <<"n","e","t","w","o","r","k","_","e","r","r","o","r">>
disk_error == <<"d","i","s","k","_","e","r","r","o","r">>
unknown_error == <<"u","n","k","n","o","w","n","_","e","r","r","o","r">>
file_operation == <<"f","i","l","e","_","o","p","e","r","a","t","i","o","n">>

ErrorKinds ==
    {stream_error, permission_error, file_not_found, network_error,
     disk_error, unknown_error}

\* The component name the callers of the ErrorHandler hand to it
Components == {file_manager}

\* startswith replaced by equality
StartsWithExact(s, prefix) == s = prefix

\* str.startswith
StartsWith(s, prefix) ==
    /\ Len(prefix) <= Len(s)
    /\ SubSeq(s, 1, Len(prefix)) = prefix

\* f"{component}_{error_type}"
ContextKey(component, error_type) == component \o Underscore \o error_type

----------------------------------------------------------------------------
(* Errors.  An error is the set of the phrases its lower-cased message      *)
(* contains; classify_error tests the phrases in a fixed order.             *)

Phrases ==
    {"underlying stream is not seekable", "permission denied", "access denied",
     "no such file", "file not found", "connection", "network", "disk", "space"}

\* The errors the callers hand to handle_error
Errors ==
    { {"underlying stream is not seekable"},
      {"access denied", "no such file"},
      {"file not found", "disk"},
      {} }

classify_error(error) ==
    IF "underlying stream is not seekable" \in error THEN stream_error
    ELSE IF "permission denied" \in error \/ "access denied" \in error
        THEN permission_error
    ELSE IF "no such file" \in error \/ "file not found" \in error
        THEN file_not_found
    ELSE IF "connection" \in error \/ "network" \in error THEN network_error
    ELSE IF "disk" \in error \/ "space" \in error THEN disk_error
    ELSE unknown_error

----------------------------------------------------------------------------
(* RecoveryAction *)

RETRY_IMMEDIATE == "retry_immediate"
RETRY_WITH_BACKOFF == "retry_with_backoff"
RESTART_COMPONENT == "restart_component"
CIRCUIT_BREAKER == "circuit_breaker"
FATAL_EXIT == "fatal_exit"

\* ErrorHandler.max_retries
max_retries ==
    (file_operation :> 5) @@ (stream_error :> 3) @@
    (permission_error :> 10) @@ (network_error :> 3)

\* self.max_retries.get(error_type, 3)
MaxRetriesGet(error_type) ==
    IF error_type \in DOMAIN max_retries THEN max_retries[error_type]
    ELSE DefaultMaxRetries

\* _get_recovery_action with >= for > in the test of the attempt cap
_get_recovery_action_ge(error_type, attempt_count) ==
    IF attempt_count >= MaxRetriesGet(error_type)
    THEN IF error_type \in {stream_error, file_not_found}
         THEN RESTART_COMPONENT
         ELSE FATAL_EXIT
    ELSE IF error_type = stream_error
    THEN IF attempt_count = 1 THEN RETRY_IMMEDIATE ELSE RETRY_WITH_BACKOFF
    ELSE RETRY_WITH_BACKOFF

\* ErrorHandler._get_recovery_action(error_type, context)
_get_recovery_action(error_type, attempt_count) ==
    IF attempt_count > MaxRetriesGet(error_type)
    THEN IF error_type \in {stream_error, file_not_found}
         THEN RESTART_COMPONENT
         ELSE FATAL_EXIT
    ELSE IF error_type = stream_error
    THEN IF attempt_count = 1 THEN RETRY_IMMEDIATE ELSE RETRY_WITH_BACKOFF
    ELSE IF error_type \in {file_not_found, permission_error}
    THEN RETRY_WITH_BACKOFF
    ELSE IF error_type = network_error THEN RETRY_WITH_BACKOFF
    ELSE RETRY_WITH_BACKOFF

Min(a, b) == IF a <= b THEN a ELSE b

\* 2 ** n, followed up to the first power above cap: a power above
\* max_backoff leaves min(delay, max_backoff) at max_backoff.
RECURSIVE Pow2From(_, _, _)
Pow2From(p, n, cap) ==
    IF n <= 0 \/ p > cap THEN p ELSE Pow2From(2 * p, n - 1, cap)

Pow2(n, cap) == Pow2From(1, n, cap)

\* The product of base_backoff, a float, and the integer 2 ** n raises
\* OverflowError when 2 ** n is not below 2.0 ** 1024.
FloatMaxExp == 1024

\* get_backoff_delay: the delay, or that it raised
get_backoff_delay(attempt) ==
    IF attempt - 1 >= FloatMaxExp
    THEN [raised |-> TRUE, delay |-> 0]
    ELSE [raised |-> FALSE,
          delay |-> Min(base_backoff * Pow2(attempt - 1, max_backoff),
                        max_backoff)]

----------------------------------------------------------------------------
(* StateManager: the in-memory WatcherState and the files that persist it *)

\* CircuitBreakerState()
DefaultCircuitBreakerState ==
    [is_open |-> FALSE, failure_count |-> 0, last_failure_time |-> 0,
     last_success_time |-> 0, next_attempt_time |-> 0]

NoInode == -1   \* file_inode = None, current_inode = None

NoPool == "None"      \* current_pool = None

\* The time at which the process constructed its WatcherState, before the
\* first moment of the model; time.time() does not return 0.
ProcessStart == -1

\* WatcherState.__post_init__ at time t: the maps and the list are never
\* absent here, and a startup_time of 0 is replaced by the time.
__post_init__(st, t) ==
    [st EXCEPT !.startup_time = IF @ = 0 THEN t ELSE @]

\* WatcherState() constructed at time t
WatcherState(t) ==
    __post_init__([current_pool |-> NoPool,
                   last_alert_times |-> << >>,
                   error_rate_window |-> << >>,
                   file_position |-> 0,
                   file_inode |-> NoInode,
                   circuit_breaker_states |-> << >>,
                   last_health_check |-> 0,
                   startup_time |-> 0], t)

\* The state of a StateManager that found no state file
DefaultWatcherState == WatcherState(ProcessStart)

\* A JSON value that may be null, for a Python value that may be None
JsonOptional(v, none) ==
    IF v = none THEN [null |-> TRUE] ELSE [null |-> FALSE, value |-> v]

\* asdict(cb_state): the JSON object of a CircuitBreakerState
CircuitBreakerDict(cb_state) ==
    [is_open |-> cb_state.is_open,
     failure_count |-> cb_state.failure_count,
     last_failure_time |-> cb_state.last_failure_time,
     last_success_time |-> cb_state.last_success_time,
     next_attempt_time |-> cb_state.next_attempt_time]

\* state_dict of save_state: asdict(self.state) with the breaker map
\* rebuilt, as json.dump writes it
StateDict(st) ==
    [current_pool |-> JsonOptional(st.current_pool, NoPool),
     last_alert_times |-> st.last_alert_times,
     error_rate_window |-> st.error_rate_window,
     file_position |-> st.file_position,
     file_inode |-> JsonOptional(st.file_inode, NoInode),
     circuit_breaker_states |->
        [name \in DOMAIN st.circuit_breaker_states |->
            CircuitBreakerDict(st.circuit_breaker_states[name])],
     last_health_check |-> st.last_health_check,
     startup_time |-> st.startup_time]

\* What a state file holds: nothing at the path, bytes that json.load or the
\* constructors reject (empty, cut short, of another shape), or the JSON
\* text of a state.
Missing == [kind |-> "missing", data |-> StateDict(DefaultWatcherState)]
Corrupt == [kind |-> "corrupt", data |-> StateDict(DefaultWatcherState)]

\* json.dump(state_dict, f): the text of a state
JsonDump(st) == [kind |-> "json", data |-> StateDict(st)]

\* A Python value that may be None, from a JSON value that may be null
FromJsonOptional(j, none) == IF j.null THEN none ELSE j.value

\* A CircuitBreakerState built without the deadline of the saved one
CircuitBreakerFromDict_no_deadline(cb_data) ==
    [is_open |-> cb_data.is_open,
     failure_count |-> cb_data.failure_count,
     last_failure_time |-> cb_data.last_failure_time,
     last_success_time |-> cb_data.last_success_time,
     next_attempt_time |-> 0]

\* CircuitBreakerState(**cb_data)
CircuitBreakerFromDict(cb_data) ==
    [is_open |-> cb_data.is_open,
     failure_count |-> cb_data.failure_count,
     last_failure_time |-> cb_data.last_failure_time,
     last_success_time |-> cb_data.last_success_time,
     next_attempt_time |-> cb_data.next_attempt_time]

\* WatcherState(**data) of load_state at time t, for the data of json.load
WatcherStateFromDict(data, t) ==
    __post_init__(
        [current_pool |-> FromJsonOptional(data.current_pool, NoPool),
         last_alert_times |-> data.last_alert_times,
         error_rate_window |-> data.error_rate_window,
         file_position |-> data.file_position,
         file_inode |-> FromJsonOptional(data.file_inode, NoInode),
         circuit_breaker_states |->
            [name \in DOMAIN data.circuit_breaker_states |->
                CircuitBreakerFromDict(data.circuit_breaker_states[name])],
         last_health_check |-> data.last_health_check,
         startup_time |-> data.startup_time], t)

\* load_state that never reads the backup
load_state_primary_only(st, d, t) ==
    IF d.primary.kind = "json"
    THEN [state |-> WatcherStateFromDict(d.primary.data, t),
          source |-> "primary", result |-> TRUE]
    ELSE [state |-> st, source |-> "none", result |-> FALSE]

\* load_state at time t into a StateManager that holds st: the state after
\* it, the path it was read from and the value returned.  A path that does
\* not exist is skipped; one that raises is reported and skipped.
load_state(st, d, t) ==
    IF d.primary.kind = "json"
    THEN [state |-> WatcherStateFromDict(d.primary.data, t),
          source |-> "primary", result |-> TRUE]
    ELSE IF d.backup.kind = "json"
    THEN [state |-> WatcherStateFromDict(d.backup.data, t),
          source |-> "backup", result |-> TRUE]
    ELSE [state |-> st, source |-> "none", result |-> FALSE]

\* How one save_state call ends: completely, or with an exception at the
\* backup copy (before or after the backup was truncated for writing), while
\* the temporary file is written, or at the rename.
SaveOutcomes ==
    {"ok", "fail_backup_open", "fail_backup_write", "fail_temp_open",
     "fail_temp", "fail_rename"}

\* save_state writing the new content to the primary path itself
save_state_in_place(st, d, outcome) ==
    LET copied == IF d.primary.kind = "missing" THEN d
                  ELSE [d EXCEPT !.backup = d.primary]
    IN  CASE outcome = "fail_backup_open" -> d
          [] outcome = "fail_backup_write" ->
                IF d.primary.kind = "missing" THEN d
                ELSE [d EXCEPT !.backup = Corrupt]
          [] outcome = "fail_temp_open" -> copied
          [] outcome = "fail_temp" -> [copied EXCEPT !.primary = Corrupt]
          [] OTHER -> [copied EXCEPT !.primary = JsonDump(st)]

\* save_state: the files after the call. An outcome names the step at which
\* the call stops: opening the two files of the backup copy, writing the
\* backup, opening the temporary file, writing it, renaming it; the files a
\* stopped call leaves are the files the call passes through at that step.
save_state(st, d, outcome) ==
    LET copied == IF d.primary.kind = "missing" THEN d
                  ELSE [d EXCEPT !.backup = d.primary]
        written == [copied EXCEPT !.tmp = JsonDump(st)]
    IN  CASE outcome = "fail_backup_open" -> d
          [] outcome = "fail_backup_write" ->
                IF d.primary.kind = "missing" THEN d
                ELSE [d EXCEPT !.backup = Corrupt]
          [] outcome = "fail_temp_open" -> copied
          [] outcome = "fail_temp" -> [copied EXCEPT !.tmp = Corrupt]
          [] outcome = "fail_rename" -> written
          [] OTHER -> [written EXCEPT !.primary = JsonDump(st), !.tmp = Missing]

\* save_state without its except clause: a failing step leaves the call as an
\* exception
save_state_returns_uncaught(outcome) ==
    IF outcome = "ok" THEN "True" ELSE "raise"

\* save_state: how the call ends for its caller. Every step is inside the try
\* block, whose except clause returns False.
save_state_returns(outcome) ==
    IF outcome = "ok" THEN "True" ELSE "False"

\* get_circuit_breaker: the breaker map with the component's entry created
get_circuit_breaker(cbs, component) ==
    IF component \in DOMAIN cbs THEN cbs
    ELSE cbs @@ (component :> DefaultCircuitBreakerState)

\* update_circuit_breaker, the assignment; the save is the caller's disk'
update_circuit_breaker(cbs, component, cb_state) ==
    IF component \in DOMAIN cbs THEN [cbs EXCEPT ![component] = cb_state]
    ELSE cbs @@ (component :> cb_state)

----------------------------------------------------------------------------
(* ErrorHandler *)

\* An ErrorContext.  last_attempt_time, error_message and stack_trace are
\* written by handle_error and read by nothing; they are left out.
NewErrorContext(error_type, component) ==
    [error_type |-> error_type, component |-> component, attempt_count |-> 0]

_count_recent_failures(context, t) == context.attempt_count

\* _should_circuit_break with > for >= in the threshold test
_should_circuit_break_gt(cb_state, context, t) ==
    IF cb_state.is_open
    THEN IF t >= cb_state.next_attempt_time
         THEN [brk |-> FALSE, cb |-> [cb_state EXCEPT !.is_open = FALSE],
               updated |-> FALSE]
         ELSE [brk |-> TRUE, cb |-> cb_state, updated |-> FALSE]
    ELSE IF context.attempt_count > cb_failure_threshold
    THEN [brk |-> TRUE,
          cb |-> [cb_state EXCEPT
                    !.is_open = TRUE,
                    !.failure_count = context.attempt_count,
                    !.last_failure_time = t,
                    !.next_attempt_time = t + cb_timeout],
          updated |-> TRUE]
    ELSE [brk |-> FALSE, cb |-> cb_state, updated |-> FALSE]

\* _should_circuit_break without the "return True" of the open branch: an
\* open breaker whose deadline has not passed falls through to "return False"
_should_circuit_break_fallthrough(cb_state, context, t) ==
    IF cb_state.is_open
    THEN IF t >= cb_state.next_attempt_time
         THEN [brk |-> FALSE, cb |-> [cb_state EXCEPT !.is_open = FALSE],
               updated |-> FALSE]
         ELSE [brk |-> FALSE, cb |-> cb_state, updated |-> FALSE]
    ELSE IF context.attempt_count >= cb_failure_threshold
    THEN [brk |-> TRUE,
          cb |-> [cb_state EXCEPT
                    !.is_open = TRUE,
                    !.failure_count = context.attempt_count,
                    !.last_failure_time = t,
                    !.next_attempt_time = t + cb_timeout],
          updated |-> TRUE]
    ELSE [brk |-> FALSE, cb |-> cb_state, updated |-> FALSE]

\* _should_circuit_break setting the deadline to the time of the failure,
\* without cb_timeout
_should_circuit_break_no_timeout(cb_state, context, t) ==
    IF cb_state.is_open
    THEN IF t >= cb_state.next_attempt_time
         THEN [brk |-> FALSE, cb |-> [cb_state EXCEPT !.is_open = FALSE],
               updated |-> FALSE]
         ELSE [brk |-> TRUE, cb |-> cb_state, updated |-> FALSE]
    ELSE IF /\ context.attempt_count >= cb_failure_threshold
            /\ _count_recent_failures(context, t) >= cb_failure_threshold
    THEN [brk |-> TRUE,
          cb |-> [cb_state EXCEPT
                    !.is_open = TRUE,
                    !.failure_count = _count_recent_failures(context, t),
                    !.last_failure_time = t,
                    !.next_attempt_time = t],
          updated |-> TRUE]
    ELSE [brk |-> FALSE, cb |-> cb_state, updated |-> FALSE]

\* _should_circuit_break: what it returns (brk), the breaker object after
\* its in-place assignments (cb), and whether it called
\* update_circuit_breaker (updated).
_should_circuit_break(cb_state, context, t) ==
    IF cb_state.is_open
    THEN IF t >= cb_state.next_attempt_time
         THEN [brk |-> FALSE, cb |-> [cb_state EXCEPT !.is_open = FALSE],
               updated |-> FALSE]
         ELSE [brk |-> TRUE, cb |-> cb_state, updated |-> FALSE]
    ELSE IF /\ context.attempt_count >= cb_failure_threshold
            /\ _count_recent_failures(context, t) >= cb_failure_threshold
    THEN [brk |-> TRUE,
          cb |-> [cb_state EXCEPT
                    !.is_open = TRUE,
                    !.failure_count = _count_recent_failures(context, t),
                    !.last_failure_time = t,
                    !.next_attempt_time = t + cb_timeout],
          updated |-> TRUE]
    ELSE [brk |-> FALSE, cb |-> cb_state, updated |-> FALSE]

\* The part of handle_error that changes the handler and the state manager:
\* the tables after the call and the action returned.
HandleErrorResult(ctxs, st, d, t, error, component, outcome) ==
    LET error_type == classify_error(error)
        context_key == ContextKey(component, error_type)
        found == IF context_key \in DOMAIN ctxs THEN ctxs[context_key]
                 ELSE NewErrorContext(error_type, component)
        context == [found EXCEPT !.attempt_count = @ + 1]
        ctxs1 == IF context_key \in DOMAIN ctxs
                 THEN [ctxs EXCEPT ![context_key] = context]
                 ELSE ctxs @@ (context_key :> context)
        cbs == get_circuit_breaker(st.circuit_breaker_states, component)
        r == _should_circuit_break(cbs[component], context, t)
        cbs1 == [cbs EXCEPT ![component] = r.cb]
        cbs2 == IF r.updated
                THEN update_circuit_breaker(cbs1, context.component, r.cb)
                ELSE cbs1
        st1 == [st EXCEPT !.circuit_breaker_states = cbs2]
        raised == r.updated /\ save_state_returns(outcome) = "raise"
    IN  [error_contexts |-> ctxs1,
         state |-> st1,
         disk |-> IF r.updated THEN save_state(st1, d, outcome) ELSE d,
         saved |-> r.updated,
         raised |-> raised,
         error_type |-> error_type,
         attempt_count |-> context.attempt_count,
         action |-> IF raised THEN "raise"
                    ELSE IF r.brk THEN CIRCUIT_BREAKER
                    ELSE _get_recovery_action(error_type, context.attempt_count)]

\* The part of record_success that changes the handler and the state manager.
RecordSuccessResult(ctxs, st, d, t, component, outcome) ==
    LET cbs == get_circuit_breaker(st.circuit_breaker_states, component)
        cb_state == cbs[component]
        closed == [cb_state EXCEPT !.is_open = FALSE, !.failure_count = 0,
                                   !.last_success_time = t]
        st1 == [st EXCEPT !.circuit_breaker_states =
                    IF cb_state.is_open
                    THEN update_circuit_breaker(cbs, component, closed)
                    ELSE cbs]
        kept == {key \in DOMAIN ctxs : ~StartsWith(key, component)}
        raised == cb_state.is_open /\ save_state_returns(outcome) = "raise"
    IN  [error_contexts |-> IF raised THEN ctxs
                            ELSE [key \in kept |-> ctxs[key]],
         state |-> st1,
         disk |-> IF cb_state.is_open THEN save_state(st1, d, outcome) ELSE d,
         saved |-> cb_state.is_open,
         raised |-> raised]

\* The record of an ErrorHandler call: the method, its argument, the kind the
\* error was classified as and the attempt it was counted as, what the call
\* returned (a RecoveryAction, or is_circuit_open's boolean), and the time of
\* the call.
NoCall ==
    [op |-> "none", component |-> << >>, error_type |-> << >>,
     attempt_count |-> 0, action |-> "none", result |-> FALSE, at |-> 0]

RECURSIVE SumAttempts(_, _)
SumAttempts(ctxs, keys) ==
    IF keys = {} THEN 0
    ELSE LET key == CHOOSE k \in keys : TRUE
         IN  ctxs[key].attempt_count + SumAttempts(ctxs, keys \ {key})

TotalAttempts(ctxs) == SumAttempts(ctxs, DOMAIN ctxs)

\* Guards that keep the model finite.
WithinBounds(error, component) ==
    LET key == ContextKey(component, classify_error(error))
    IN  /\ TotalAttempts(error_contexts) < MaxAttempts
        /\ \/ key \in DOMAIN error_contexts
           \/ Cardinality(DOMAIN error_contexts) < MaxContexts

\* ErrorHandler.handle_error(error, component); outcome is how the save_state
\* call ends, if the handler makes one.
HandleError(error, component, outcome) ==
    /\ LET r == HandleErrorResult(error_contexts, state, disk, now, error,
                                 component, outcome)
       IN  /\ error_contexts' = r.error_contexts
           /\ state' = r.state
           /\ disk' = r.disk
           /\ last' = [op |-> "handle_error", component |-> component,
                       error_type |-> r.error_type,
                       attempt_count |-> r.attempt_count,
                       action |-> r.action, result |-> FALSE, at |-> now]
    /\ UNCHANGED <<now, fs, wl>>

\* ErrorHandler.record_success(component)
RecordSuccess(component, outcome) ==
    /\ LET r == RecordSuccessResult(error_contexts, state, disk, now,
                                   component, outcome)
       IN  /\ error_contexts' = r.error_contexts
           /\ state' = r.state
           /\ disk' = r.disk
           /\ last' = [NoCall EXCEPT !.op = "record_success",
                                     !.component = component,
                                     !.action = IF r.raised THEN "raise"
                                                ELSE "none",
                                     !.at = now]
    /\ UNCHANGED <<now, fs, wl>>

\* ErrorHandler.trigger_circuit_breaker(component)
TriggerCircuitBreaker(component, outcome) ==
    /\ LET cbs == get_circuit_breaker(state.circuit_breaker_states, component)
           cb_state == [cbs[component] EXCEPT
                           !.is_open = TRUE,
                           !.next_attempt_time = now + cb_timeout]
           st1 == [state EXCEPT !.circuit_breaker_states =
                       update_circuit_breaker(cbs, component, cb_state)]
       IN  /\ state' = st1
           /\ disk' = save_state(st1, disk, outcome)
    /\ last' = [NoCall EXCEPT !.op = "trigger_circuit_breaker",
                              !.component = component,
                              !.action = IF save_state_returns(outcome) = "raise"
                                         THEN "raise" ELSE "none",
                              !.at = now]
    /\ UNCHANGED <<now, error_contexts, fs, wl>>

\* What is_circuit_open returns for a breaker at time t
is_circuit_open(cb_state, t) ==
    IF cb_state.is_open /\ t >= cb_state.next_attempt_time THEN FALSE
    ELSE cb_state.is_open

\* ErrorHandler.is_circuit_open(component)
IsCircuitOpen(component) ==
    LET cbs == get_circuit_breaker(state.circuit_breaker_states, component)
    IN  /\ state' = [state EXCEPT !.circuit_breaker_states = cbs]
        /\ last' = [NoCall EXCEPT !.op = "is_circuit_open",
                                  !.component = component,
                                  !.result = is_circuit_open(cbs[component], now),
                                  !.at = now]
        /\ UNCHANGED <<now, error_contexts, disk, fs, wl>>

\* Time passes between two calls.
Tick ==
    /\ now + TickStep <= MaxTime
    /\ now' = now + TickStep
    /\ UNCHANGED <<error_contexts, state, disk, last, fs, wl>>

----------------------------------------------------------------------------
(* The ErrorHandler driven by arbitrary callers *)

Init ==
    /\ now = 0
    /\ error_contexts = << >>
    /\ state = DefaultWatcherState
    /\ disk = [primary |-> Missing, backup |-> Missing, tmp |-> Missing]
    /\ last = NoCall
    /\ fs = << >>
    /\ wl = << >>

\* Every save_state call of these callers completes.
Outcomes == {"ok"}

Next ==
    \/ \E error \in Errors, component \in Components, outcome \in Outcomes :
            /\ WithinBounds(error, component)
            /\ HandleError(error, component, outcome)
    \/ \E component \in Components, outcome \in Outcomes :
            RecordSuccess(component, outcome)
    \/ \E component \in Components, outcome \in Outcomes :
            TriggerCircuitBreaker(component, outcome)
    \/ \E component \in Components : IsCircuitOpen(component)
    \/ Tick

Spec == Init /\ [][Next]_vars

----------------------------------------------------------------------------
(* Properties of the ErrorHandler *)

\* The breaker of a component, closed by default when none was created yet
Breaker(st, component) ==
    IF component \in DOMAIN st.circuit_breaker_states
    THEN st.circuit_breaker_states[component]
    ELSE DefaultCircuitBreakerState

\* The ErrorContext entries of (component, error_type), found by their fields
ContextsOf(ctxs, component, error_type) ==
    {key \in DOMAIN ctxs : /\ ctxs[key].component = component
                           /\ ctxs[key].error_type = error_type}

\* attempt_count of (component, error_type); 0 when there is no ErrorContext
AttemptCountOf(ctxs, component, error_type) ==
    LET keys == ContextsOf(ctxs, component, error_type)
    IN  IF keys = {} THEN 0 ELSE ctxs[CHOOSE key \in keys : TRUE].attempt_count

\* This step is a handle_error call for (component, error_type): every such
\* call changes error_contexts and is recorded in last.
HandleErrorStep(component, error_type) ==
    /\ error_contexts' # error_contexts
    /\ last'.op = "handle_error"
    /\ last'.component = component
    /\ last'.error_type = error_type

\* C1: every handle_error call for component c with an error of kind k
\* raises attempt_count of the ErrorContext of (c, k) by exactly 1, creating
\* it at 1, and after record_success(c) there is no ErrorContext of c, so the
\* next failure of any kind for c is counted as attempt 1.
C1_AttemptCount ==
    /\ [][\A c \in Components, k \in ErrorKinds :
            HandleErrorStep(c, k) =>
                /\ AttemptCountOf(error_contexts', c, k)
                    = AttemptCountOf(error_contexts, c, k) + 1
                /\ Cardinality(ContextsOf(error_contexts', c, k)) = 1]_vars
    /\ [](last.op = "record_success" =>
            \A key \in DOMAIN error_contexts :
                error_contexts[key].component # last.component)
    /\ [][\A c \in Components, k \in ErrorKinds :
            (last.op = "record_success" /\ last.component = c
                /\ HandleErrorStep(c, k))
            => AttemptCountOf(error_contexts', c, k) = 1]_vars

\* C1 witness: a breaker that a streak opened was closed by record_success,
\* and the failure handled after it is attempt 1, beside a second context.
C1_Witness ==
    /\ last.op = "handle_error"
    /\ last.attempt_count = 1
    /\ AttemptCountOf(error_contexts, last.component, last.error_type) = 1
    /\ Cardinality(DOMAIN error_contexts) = 2
    /\ Breaker(state, last.component).last_failure_time > 0
    /\ Breaker(state, last.component).last_success_time
        >= Breaker(state, last.component).last_failure_time

\* C2: a handle_error call on a closed breaker opens it iff the call brings
\* attempt_count to the failure threshold or beyond.
C2_OpensIffThreshold ==
    [][\A c \in Components, k \in ErrorKinds :
        (HandleErrorStep(c, k) /\ ~Breaker(state, c).is_open) =>
            (Breaker(state', c).is_open
                <=> AttemptCountOf(error_contexts', c, k)
                        >= cb_failure_threshold)]_vars

\* C2 witness: the call that counted attempt 5 has just opened the breaker.
C2_Witness ==
    /\ last.op = "handle_error"
    /\ last.attempt_count = cb_failure_threshold
    /\ Breaker(state, last.component).is_open
    /\ Breaker(state, last.component).failure_count = cb_failure_threshold
    /\ Breaker(state, last.component).last_failure_time = now
    /\ now > 0

\* C3: while the breaker is open, is_circuit_open returns true before
\* next_attempt_time, and once the deadline has passed it returns false only
\* once: with no failure or success in between, the call after a post-deadline
\* call that returned false returns true.
C3_HalfOpenOnce ==
    /\ [](\A c \in Components :
            (/\ last.op = "is_circuit_open"
             /\ last.component = c
             /\ Breaker(state, c).is_open
             /\ last.at < Breaker(state, c).next_attempt_time)
            => last.result = TRUE)
    /\ [][\A c \in Components :
            (/\ last.op = "is_circuit_open"
             /\ last.component = c
             /\ Breaker(state, c).is_open
             /\ last.at >= Breaker(state, c).next_attempt_time
             /\ last.result = FALSE
             /\ last'.op = "is_circuit_open"
             /\ last'.component = c
             /\ last' # last)
            => last'.result = TRUE]_vars

\* C4: a failure handled after the deadline of an open breaker has passed
\* re-opens the breaker in that call: on return is_open is true and
\* next_attempt_time is the time of the failure plus the cooldown.
C4_FailedTrialReopens ==
    [][\A c \in Components, k \in ErrorKinds :
        (/\ HandleErrorStep(c, k)
         /\ Breaker(state, c).is_open
         /\ now >= Breaker(state, c).next_attempt_time)
        => /\ Breaker(state', c).is_open
           /\ Breaker(state', c).next_attempt_time = now + cb_timeout]_vars

\* C5: after record_success(component) the breaker of the component has
\* is_open = false and failure_count = 0.
C5_SuccessResets ==
    last.op = "record_success" =>
        /\ ~Breaker(state, last.component).is_open
        /\ Breaker(state, last.component).failure_count = 0

\* C6: handle_error returns CIRCUIT_BREAKER whenever the breaker is open with
\* its deadline not passed, and on the call in which the breaker newly opens,
\* whatever the attempt cap of the kind says.
C6_BreakerIntercepts ==
    [][\A c \in Components, k \in ErrorKinds :
        (/\ HandleErrorStep(c, k)
         /\ \/ /\ Breaker(state, c).is_open
               /\ now < Breaker(state, c).next_attempt_time
            \/ /\ ~Breaker(state, c).is_open
               /\ Breaker(state', c).is_open)
        => last'.action = CIRCUIT_BREAKER]_vars

\* C6 witness: attempt 6 of a kind whose cap is 3 was answered with
\* CIRCUIT_BREAKER by the breaker that attempt 5 opened.
C6_Witness ==
    /\ last.op = "handle_error"
    /\ last.action = CIRCUIT_BREAKER
    /\ last.attempt_count = cb_failure_threshold + 1
    /\ last.attempt_count > MaxRetriesGet(last.error_type)
    /\ Breaker(state, last.component).is_open
    /\ Breaker(state, last.component).failure_count = cb_failure_threshold
    /\ now < Breaker(state, last.component).next_attempt_time

----------------------------------------------------------------------------
(* The decision of handle_error, for every kind and attempt.               *)
(* The handler starts in a state it can be in before a call that the       *)
(* breaker does not necessarily intercept: a closed breaker after fewer    *)
(* failures than the threshold, or a breaker that trigger_circuit_breaker  *)
(* opened at time 0 and whose deadline has just been reached, after any    *)
(* number of failures counted while it was open.  One call follows.        *)

\* One error of each kind
DecisionErrors ==
    { {"underlying stream is not seekable"}, {"permission denied"},
      {"file not found"}, {"network"}, {"space"}, {} }

\* The ErrorContext table after m failures of one kind for file_manager
ContextsAfter(error_type, m) ==
    IF m = 0 THEN << >>
    ELSE ContextKey(file_manager, error_type) :>
            [NewErrorContext(error_type, file_manager)
                EXCEPT !.attempt_count = m]

TriggeredAtZero ==
    [DefaultWatcherState EXCEPT !.circuit_breaker_states =
        file_manager :> [DefaultCircuitBreakerState EXCEPT
                            !.is_open = TRUE, !.next_attempt_time = cb_timeout]]

DecisionInit ==
    /\ last = NoCall
    /\ fs = << >>
    /\ wl = << >>
    /\ \E error_type \in ErrorKinds, m \in 0 .. MaxPriorAttempts :
        /\ error_contexts = ContextsAfter(error_type, m)
        /\ \/ /\ m < cb_failure_threshold
              /\ now = 0
              /\ state = DefaultWatcherState
              /\ disk = [primary |-> Missing, backup |-> Missing,
                         tmp |-> Missing]
           \/ /\ now = cb_timeout
              /\ state = TriggeredAtZero
              /\ disk = [primary |-> JsonDump(TriggeredAtZero),
                         backup |-> Missing, tmp |-> Missing]

DecisionNext ==
    /\ last.op = "none"
    /\ \E error \in DecisionErrors : HandleError(error, file_manager, "ok")

DecisionSpec == DecisionInit /\ [][DecisionNext]_vars

\* The action the claim C7 names for a kind and an attempt
ClaimedAction(error_type, attempt_count) ==
    IF attempt_count > MaxRetriesGet(error_type)
    THEN IF error_type \in {stream_error, file_not_found}
         THEN RESTART_COMPONENT ELSE FATAL_EXIT
    ELSE IF error_type = stream_error /\ attempt_count = 1
         THEN RETRY_IMMEDIATE ELSE RETRY_WITH_BACKOFF

----------------------------------------------------------------------------
(* The watched path *)

\* The lengths in bytes, newline included, of the lines a writer appends
LineLengths == {25}

RECURSIVE SumSeq(_)
SumSeq(q) == IF q = << >> THEN 0 ELSE Head(q) + SumSeq(Tail(q))

\* st_size of a file, given the lengths of its lines
FileSize(lines) == SumSeq(lines)

\* The end of the line that a readline() at offset pos returns
NextLineEnd(lines, pos) ==
    LET ends == {SumSeq(SubSeq(lines, 1, i)) : i \in 1 .. Len(lines)}
        after == {e \in ends : e > pos}
    IN  CHOOSE e \in after : \A o \in after : e <= o

\* An I/O fault that, once it has begun, strikes on every attempt:
\*   "open"      open() raises
\*   "stat"      os.stat() raises
\*   "seek"      the stream is not seekable: seek() and tell() raise
\*   "readline"  readline() raises
FaultSites == {"open", "stat", "seek", "readline"}

NoFault == [site |-> "none", error |-> {}]

\* No open file: current_file = None
NoFile == [open |-> FALSE, inode |-> NoInode, pos |-> 0]

\* LogFileManager(state_manager, error_handler) at the start of watch_file:
\* the fields, the position in the loop, the failure being handled, what
\* left watch_file, whether a handle was dropped without close(), and
\* whether the failure being handled, a stream that is not seekable, was
\* followed by a seek() on the handle it came from
NewLogFileManager ==
    [pc |-> "open", current_file |-> NoFile, current_inode |-> NoInode,
     last_position |-> 0, lines_read |-> 0, exc |-> {}, escaped |-> "none",
     leaked |-> FALSE, reseek |-> FALSE]

NoSize == -1

\* What the consumer and the operator have seen: the lines yielded, each
\* named by its file and the offset of its end, the size the file had when
\* the first process first opened it, and the restarts of the process
NoHistory == [yielded |-> {}, first_size |-> NoSize, restarts |-> 0]

----------------------------------------------------------------------------
(* LogFileManager *)

\* time.sleep(d) on a clock that is read up to MaxTime: a later time reads as
\* MaxTime, which compares like the time itself with every deadline that is
\* not beyond MaxTime.
SleepUntil(t, d) == IF t + d > MaxTime THEN MaxTime ELSE t + d

\* The sleep is followed as long as that reading is exact.
CanSleep(t, d, st) ==
    \/ t + d <= MaxTime
    \/ \A c \in DOMAIN st.circuit_breaker_states :
        ~ /\ st.circuit_breaker_states[c].is_open
          /\ st.circuit_breaker_states[c].next_attempt_time > MaxTime

\* StateManager.update_file_position(position, inode)
update_file_position(st, position, inode) ==
    [st EXCEPT !.file_position = position,
               !.file_inode = IF inode # NoInode THEN inode ELSE @]

\* _close_file flushing the last known offset also when no file is open
_close_file_unguarded(w, st, fault) ==
    IF ~w.current_file.open
    THEN [wl |-> w,
          state |-> update_file_position(st, w.last_position, w.current_inode)]
    ELSE IF fault.site = "seek"
    THEN [wl |-> [w EXCEPT !.current_file = NoFile, !.current_inode = NoInode,
                           !.leaked = TRUE],
          state |-> st]
    ELSE [wl |-> [w EXCEPT !.current_file = NoFile, !.current_inode = NoInode],
          state |-> update_file_position(st, w.current_file.pos,
                                         w.current_inode)]

\* _close_file: the LogFileManager fields and the WatcherState after it.
\* When tell() raises, the except branch skips update_file_position and
\* close(), and the finally branch drops the handle.
_close_file(w, st, fault) ==
    IF ~w.current_file.open THEN [wl |-> w, state |-> st]
    ELSE IF fault.site = "seek"
    THEN [wl |-> [w EXCEPT !.current_file = NoFile, !.current_inode = NoInode,
                           !.leaked = TRUE],
          state |-> st]
    ELSE [wl |-> [w EXCEPT !.current_file = NoFile, !.current_inode = NoInode],
          state |-> update_file_position(st, w.current_file.pos,
                                         w.current_inode)]

\* detect_rotation
detect_rotation(w, f) ==
    IF ~f.exists THEN TRUE
    ELSE IF f.fault.site = "stat" THEN TRUE
    ELSE IF w.current_inode # NoInode /\ w.current_inode # 0
            /\ f.inode # w.current_inode
    THEN TRUE
    ELSE IF w.current_file.open
    THEN IF f.fault.site = "seek" THEN TRUE
         ELSE FileSize(f.files[f.inode]) < w.current_file.pos - rotation_slack
    ELSE FALSE

\* ResumePosition without the test of the inode
ResumePosition_any_inode(saved_inode, saved_position, current_inode, file_size) ==
    IF saved_position <= file_size THEN saved_position ELSE file_size

\* Where _ensure_file_open seeks to: the saved position of the same file if
\* the file is not shorter than it, the end of the file otherwise
ResumePosition(saved_inode, saved_position, current_inode, file_size) ==
    IF saved_inode = current_inode /\ saved_position <= file_size
    THEN saved_position ELSE file_size

\* _ensure_file_open
EnsureFileOpen ==
    /\ wl.pc = "open"
    /\ IF wl.current_file.open
       THEN /\ wl' = [wl EXCEPT !.pc = "read", !.lines_read = 0]
            /\ UNCHANGED <<now, error_contexts, state, disk, last>>
       ELSE IF ~fs.exists
       THEN \* "Waiting for log file": time.sleep(1); continue
            /\ now < MaxWait
            /\ CanSleep(now, 1, state)
            /\ now' = SleepUntil(now, 1)
            /\ UNCHANGED <<wl, error_contexts, state, disk, last>>
       ELSE IF fs.fault.site = "open"
       THEN \* open() raises: _close_file() finds no file; raise
            /\ wl' = [wl EXCEPT !.pc = "except", !.exc = fs.fault.error]
            /\ UNCHANGED <<now, error_contexts, state, disk, last>>
       ELSE IF fs.fault.site \in {"stat", "seek"}
       THEN \* os.stat(), seek() or tell() raises on the handle just opened
            \* at offset 0, before current_inode was assigned when stat fails
            LET opened == [wl EXCEPT
                            !.current_file =
                                [open |-> TRUE, inode |-> fs.inode, pos |-> 0],
                            !.current_inode =
                                IF fs.fault.site = "stat" THEN @ ELSE fs.inode]
                c == _close_file(opened, state, fs.fault)
            IN  /\ wl' = [c.wl EXCEPT !.pc = "except", !.exc = fs.fault.error]
                /\ state' = c.state
                /\ UNCHANGED <<now, error_contexts, disk, last>>
       ELSE LET file_size == FileSize(fs.files[fs.inode])
                saved_position == state.file_position
                saved_inode == state.file_inode
                position == ResumePosition(saved_inode, saved_position,
                                           fs.inode, file_size)
                st1 == update_file_position(state, position, fs.inode)
                r == RecordSuccessResult(error_contexts, st1, disk, now,
                                         file_manager, "ok")
            IN  /\ wl' = [wl EXCEPT
                            !.pc = "read", !.lines_read = 0,
                            !.current_file = [open |-> TRUE, inode |-> fs.inode,
                                              pos |-> position],
                            !.current_inode = fs.inode,
                            !.last_position = position,
                            !.first_size = IF @ = NoSize /\ wl.restarts = 0
                                           THEN file_size ELSE @]
                /\ error_contexts' = r.error_contexts
                /\ state' = r.state
                /\ disk' = r.disk
                /\ last' = [NoCall EXCEPT !.op = "record_success",
                                          !.component = file_manager,
                                          !.at = now]
                /\ now' = now
    /\ UNCHANGED fs

\* One round of the loop of _read_lines, and the yield of its line
ReadLine ==
    /\ wl.pc = "read"
    /\ LET lines == fs.files[wl.current_file.inode]
           pos == wl.current_file.pos
       IN  IF fs.fault.site = "seek"
           THEN \* tell() raises; the handler of _read_lines tries
                \* seek(last_position), which raises too; raise
                /\ wl' = [wl EXCEPT
                            !.pc = "except",
                            !.exc = fs.fault.error,
                            !.reseek = (classify_error(fs.fault.error) =
                                            stream_error)]
                /\ state' = state
           ELSE IF fs.fault.site = "readline"
           THEN IF "underlying stream is not seekable" \in fs.fault.error
                THEN \* _close_file(); raise e; the seek on None is swallowed
                     LET c == _close_file(wl, state, fs.fault)
                     IN  /\ wl' = [c.wl EXCEPT !.pc = "except",
                                               !.exc = fs.fault.error]
                         /\ state' = c.state
                ELSE \* seek(last_position); raise
                     /\ wl' = [wl EXCEPT !.pc = "except",
                                         !.exc = fs.fault.error,
                                         !.current_file.pos = wl.last_position]
                     /\ state' = state
           ELSE IF pos >= FileSize(lines)
           THEN \* readline() returns "": break
                /\ wl' = [wl EXCEPT !.pc = "rotation"]
                /\ state' = state
           ELSE LET end == NextLineEnd(lines, pos)
                IN  /\ wl' = [wl EXCEPT !.current_file.pos = end,
                                        !.last_position = end,
                                        !.lines_read = @ + 1,
                                        !.yielded = @ \cup
                                            {<<wl.current_file.inode, end>>}]
                    /\ state' = IF end % 50 = 0
                                THEN update_file_position(state, end,
                                                          wl.current_inode)
                                ELSE state
    /\ UNCHANGED <<now, error_contexts, disk, last, fs>>

\* After the lines: the rotation check, or the pause of 0.1 s, which is
\* shorter than the clock's second.
AfterRead ==
    /\ wl.pc = "rotation"
    /\ IF wl.lines_read > 0 /\ detect_rotation(wl, fs)
       THEN LET c == _close_file(wl, state, fs.fault)
            IN  /\ wl' = [c.wl EXCEPT !.pc = "open"]
                /\ state' = c.state
       ELSE /\ wl' = [wl EXCEPT !.pc = "open"]
            /\ state' = state
    /\ UNCHANGED <<now, error_contexts, disk, last, fs>>

\* What watch_file does with a recovery action: whether it closes the file,
\* how long it sleeps and what it raises: nothing, the failure it caught
\* (the bare raise of FATAL_EXIT) or the OverflowError of get_backoff_delay.
Reaction(action, ctxs) ==
    CASE action = RETRY_IMMEDIATE ->
            [close |-> TRUE, sleep |-> 0, raise |-> "none"]
      [] action = RETRY_WITH_BACKOFF ->
            LET key == ContextKey(file_manager, stream_error)
                d == get_backoff_delay(IF key \in DOMAIN ctxs
                                       THEN ctxs[key].attempt_count ELSE 1)
            IN  IF d.raised
                THEN [close |-> TRUE, sleep |-> 0, raise |-> "OverflowError"]
                ELSE [close |-> TRUE, sleep |-> d.delay, raise |-> "none"]
      [] action = RESTART_COMPONENT ->
            [close |-> TRUE, sleep |-> restart_pause, raise |-> "none"]
      [] action = CIRCUIT_BREAKER ->
            [close |-> FALSE, sleep |-> circuit_pause, raise |-> "none"]
      [] OTHER -> [close |-> FALSE, sleep |-> 0, raise |-> "failure"]

\* The except clause of watch_file
HandleFailure ==
    /\ wl.pc = "except"
    /\ LET r == HandleErrorResult(error_contexts, state, disk, now, wl.exc,
                                 file_manager, "ok")
           react == Reaction(r.action, r.error_contexts)
           c == IF react.close THEN _close_file(wl, r.state, fs.fault)
                ELSE [wl |-> wl, state |-> r.state]
       IN  /\ CanSleep(now, react.sleep, c.state)
           /\ error_contexts' = r.error_contexts
           /\ state' = c.state
           /\ disk' = r.disk
           /\ last' = [op |-> "handle_error", component |-> file_manager,
                       error_type |-> r.error_type,
                       attempt_count |-> r.attempt_count,
                       action |-> r.action, result |-> FALSE, at |-> now]
           /\ now' = SleepUntil(now, react.sleep)
           /\ wl' = [c.wl EXCEPT
                        !.pc = IF react.raise = "none" THEN "open"
                               ELSE "raised",
                        !.escaped = react.raise,
                        !.exc = {},
                        !.reseek = FALSE]
    /\ UNCHANGED fs

\* The steps of watch_file
WatchStep == EnsureFileOpen \/ ReadLine \/ AfterRead \/ HandleFailure

\* A writer appends a line to the file at the path.
AppendLine ==
    /\ fs.exists
    /\ Len(fs.files[fs.inode]) < MaxLines
    /\ \E n \in LineLengths :
        fs' = [fs EXCEPT !.files[fs.inode] = Append(@, n)]
    /\ UNCHANGED <<now, error_contexts, state, disk, last, wl>>

\* The file at the path is replaced by a new, empty file.
Rotate ==
    /\ fs.exists
    /\ Len(fs.files) < MaxInodes
    /\ fs' = [fs EXCEPT !.files = Append(@, << >>), !.inode = Len(fs.files) + 1]
    /\ UNCHANGED <<now, error_contexts, state, disk, last, wl>>

\* The file at the path is removed.
Remove ==
    /\ fs.exists
    /\ fs' = [fs EXCEPT !.exists = FALSE]
    /\ UNCHANGED <<now, error_contexts, state, disk, last, wl>>

\* A new, empty file is created at the path.
Create ==
    /\ ~fs.exists
    /\ Len(fs.files) < MaxInodes
    /\ fs' = [fs EXCEPT !.exists = TRUE, !.files = Append(@, << >>),
                        !.inode = Len(fs.files) + 1]
    /\ UNCHANGED <<now, error_contexts, state, disk, last, wl>>

\* An I/O fault begins.
StartFault ==
    /\ fs.fault.site = "none"
    /\ \E site \in FaultSites, error \in Errors :
        fs' = [fs EXCEPT !.fault = [site |-> site, error |-> error]]
    /\ UNCHANGED <<now, error_contexts, state, disk, last, wl>>

\* The process stops, by a crash or a clean stop that runs __del__, and a
\* new one starts on the same files: StateManager(), ErrorHandler() and
\* LogFileManager() are constructed and watch_file is called.
Restart ==
    /\ wl.restarts < MaxRestarts
    /\ state' = load_state(WatcherState(now), disk, now).state
    /\ error_contexts' = << >>
    /\ wl' = NewLogFileManager @@
                [yielded |-> wl.yielded, first_size |-> wl.first_size,
                 restarts |-> wl.restarts + 1]
    /\ last' = [NoCall EXCEPT
                    !.op = "load_state",
                    !.result = load_state(WatcherState(now), disk, now).result,
                    !.at = now]
    /\ UNCHANGED <<now, disk, fs>>

WatchInit ==
    /\ now = 0
    /\ error_contexts = << >>
    /\ state = DefaultWatcherState
    /\ disk = [primary |-> Missing, backup |-> Missing, tmp |-> Missing]
    /\ last = NoCall
    /\ \E exists \in BOOLEAN :
        fs = [exists |-> exists, inode |-> IF exists THEN 1 ELSE 0,
              files |-> IF exists THEN << << >> >> ELSE << >>,
              fault |-> NoFault]
    /\ wl = NewLogFileManager @@ NoHistory

WatchNext ==
    \/ WatchStep
    \/ AppendLine
    \/ Rotate
    \/ Remove
    \/ Create
    \/ StartFault

\* watch_file and its environment
WatchSpec == WatchInit /\ [][WatchNext]_vars

\* watch_file on a file that nobody writes, replaces or removes
FaultNext ==
    \/ WatchStep
    \/ StartFault

FaultSpec == WatchInit /\ [][FaultNext]_vars

\* The loop is the only thread of the process and every step of it ends.
FaultFair == FaultSpec /\ WF_vars(WatchStep)

\* The loop is the only thread of the process and every step of it ends.
WatchFair == WatchSpec /\ WF_vars(WatchStep)

\* watch_file on a file that is written but not replaced and on which no
\* I/O fails, in a process that is stopped and started again
RestartNext ==
    \/ EnsureFileOpen
    \/ ReadLine
    \/ AfterRead
    \/ AppendLine
    \/ Restart

RestartSpec == WatchInit /\ [][RestartNext]_vars

----------------------------------------------------------------------------
(* watch_file after a long streak of stream errors *)

\* While every open finds an unseekable stream, the breaker opens at the
\* fifth stream_error and from then on each period consists of the
\* circuit-breaker pauses that fill cb_timeout and of the failure that finds
\* the deadline passed, closes the breaker and gets RESTART_COMPONENT; the
\* next failure opens the breaker again.
AttemptsPerPeriod == cb_timeout \div circuit_pause + 1

PeriodLength == cb_timeout + restart_pause

\* The failures counted at the end of period j
StreakAttempts(j) == cb_failure_threshold - 1 + AttemptsPerPeriod * j

\* The breaker as period j opened it at time t
OpenedInPeriod(j, t) ==
    [DefaultWatcherState EXCEPT !.circuit_breaker_states =
        file_manager :>
            [is_open |-> TRUE,
             failure_count |-> StreakAttempts(j) - AttemptsPerPeriod + 1,
             last_failure_time |-> t,
             last_success_time |-> 0,
             next_attempt_time |-> t + cb_timeout]]

\* The periods after which the streak is taken up
StreakPeriods == {1, 145, 146}

\* The state at the end of a period that opened the breaker at time 0, when
\* the stream has just stopped being unseekable.
StreakInit ==
    \E j \in StreakPeriods :
        /\ now = PeriodLength
        /\ error_contexts = ContextsAfter(stream_error, StreakAttempts(j))
        /\ state = [OpenedInPeriod(j, 0) EXCEPT
                      !.circuit_breaker_states[file_manager].is_open = FALSE]
        /\ disk = [primary |-> JsonDump(OpenedInPeriod(j, 0)),
                   backup |-> IF j = 1 THEN Missing
                              ELSE JsonDump(OpenedInPeriod(j - 1,
                                                           0 - PeriodLength)),
                   tmp |-> Missing]
        /\ last = [op |-> "handle_error", component |-> file_manager,
                   error_type |-> stream_error,
                   attempt_count |-> StreakAttempts(j),
                   action |-> RESTART_COMPONENT, result |-> FALSE,
                   at |-> cb_timeout]
        /\ fs = [exists |-> TRUE, inode |-> 1, files |-> << << >> >>,
                 fault |-> NoFault]
        /\ wl = [NewLogFileManager EXCEPT !.leaked = TRUE] @@ NoHistory

StreakSpec == StreakInit /\ [][FaultNext]_vars

\* The end of period 1 as WatchSpec reaches it, at the time the first four
\* failures take.
StreakStart == 2 * restart_pause + 4

StreakInitReached ==
    /\ now = StreakStart + PeriodLength
    /\ error_contexts = ContextsAfter(stream_error, StreakAttempts(1))
    /\ state = [OpenedInPeriod(1, StreakStart) EXCEPT
                  !.circuit_breaker_states[file_manager].is_open = FALSE]
    /\ disk.primary = JsonDump(OpenedInPeriod(1, StreakStart))
    /\ disk.backup = Missing
    /\ last.action = RESTART_COMPONENT
    /\ wl.pc = "open" /\ ~wl.current_file.open /\ wl.leaked

----------------------------------------------------------------------------
(* Claims about watch_file *)

\* The kinds that _get_recovery_action restarts instead of giving up
Recoverable == {stream_error, file_not_found}

\* C8: watch_file terminates only by re-raising the failure for which
\* handle_error returned FATAL_EXIT; after every other recovery action the
\* loop continues at the top and no exception leaves watch_file.
C8_OnlyFatalTerminates ==
    [][/\ (wl.pc # "raised" /\ wl'.pc = "raised") =>
            /\ wl.pc = "except"
            /\ last'.op = "handle_error"
            /\ last'.action = FATAL_EXIT
            /\ wl'.escaped = "failure"
       /\ (wl.pc = "except" /\ wl'.pc # "except"
            /\ last'.action # FATAL_EXIT) =>
            wl'.pc = "open" /\ wl'.escaped = "none"]_vars

\* C9: when failures of a kind outside the recoverable set keep being
\* handled, watch_file eventually re-raises and terminates.
C9_FatalEventually ==
    ([]<><<HandleFailure /\ classify_error(wl.exc) \notin Recoverable>>_vars)
        => <>(wl.pc = "raised")

\* The tailer holds a handle on a file that is no longer the one at the path.
HoldsOld ==
    /\ wl.current_file.open
    /\ fs.exists
    /\ fs.inode # wl.current_file.inode

\* The tailer holds a handle on the file at the path.
OpenedCurrent ==
    /\ wl.current_file.open
    /\ fs.exists
    /\ fs.inode = wl.current_file.inode

\* C10: once the file at the path is another one than the file the tailer
\* holds, the tailer eventually holds the file at the path, as long as that
\* file stays in place and no I/O fault occurs.
C10_RotationReopens ==
    HoldsOld ~> (OpenedCurrent \/ ~fs.exists \/ fs.fault.site # "none")

----------------------------------------------------------------------------
(* Claims about restarts and the saved position *)

\* The ends of the lines of a file
LineEnds(lines) == {SumSeq(SubSeq(lines, 1, i)) : i \in 1 .. Len(lines)}

\* The restarted process has read the file at the path up to its end.
RestartedAtEnd ==
    /\ wl.restarts > 0
    /\ wl.first_size # NoSize
    /\ wl.pc = "rotation"
    /\ wl.current_file.open
    /\ wl.current_file.inode = fs.inode
    /\ wl.current_file.pos >= FileSize(fs.files[fs.inode])

\* C11: when the restarted process has read the file up to its end, every
\* line that was appended after the first process opened the file has been
\* yielded by one of the two.
C11_AtLeastOnce ==
    RestartedAtEnd =>
        \A e \in LineEnds(fs.files[fs.inode]) :
            e > wl.first_size => <<fs.inode, e>> \in wl.yielded

----------------------------------------------------------------------------
(* _ensure_file_open on a saved position *)

\* The positions a WatcherState may hold when the file is opened: offsets of
\* line ends, up to one line beyond the longest file
SavedPositions ==
    {n * k : n \in LineLengths, k \in 0 .. MaxLines + 1}

\* The files that may be at the path: of either inode, of every length
OpenInit ==
    /\ now = 0
    /\ error_contexts = << >>
    /\ disk = [primary |-> Missing, backup |-> Missing, tmp |-> Missing]
    /\ last = NoCall
    /\ wl = NewLogFileManager @@ NoHistory
    /\ \E position \in SavedPositions, saved_inode \in {NoInode} \cup 1 .. 2 :
        state = [DefaultWatcherState EXCEPT !.file_position = position,
                                            !.file_inode = saved_inode]
    /\ \E inode \in 1 .. 2, count \in 0 .. MaxLines, n \in LineLengths :
        fs = [exists |-> TRUE, inode |-> inode,
              files |-> [i \in 1 .. 2 |-> [k \in 1 .. count |-> n]],
              fault |-> NoFault]

\* The file is opened while it is written.
OpenNext ==
    \/ EnsureFileOpen
    \/ AppendLine

OpenSpec == OpenInit /\ [][OpenNext]_vars

\* C12: opening the file seeks to the saved position exactly when the saved
\* inode is the file's inode and the saved position is not beyond the file's
\* size, and to the end of the file otherwise; afterwards last_position and
\* the state's file_position are the chosen offset and the state's
\* file_inode and current_inode are the file's inode.
C12_ResumeOrEnd ==
    [][(wl.pc = "open" /\ wl'.pc = "read" /\ ~wl.current_file.open) =>
        LET size == FileSize(fs.files[fs.inode])
            chosen == IF state.file_inode = fs.inode
                         /\ state.file_position <= size
                      THEN state.file_position ELSE size
        IN  /\ wl'.current_file.open
            /\ wl'.current_file.inode = fs.inode
            /\ wl'.current_file.pos = chosen
            /\ wl'.last_position = chosen
            /\ wl'.current_inode = fs.inode
            /\ state'.file_position = chosen
            /\ state'.file_inode = fs.inode]_vars

\* The file was opened at a saved position before its end.
C12_Witness ==
    /\ wl.pc = "read"
    /\ wl.current_file.open
    /\ wl.current_file.pos > 0
    /\ wl.current_file.pos < FileSize(fs.files[fs.inode])
    /\ state.file_position = wl.current_file.pos
    /\ wl.last_position = wl.current_file.pos

----------------------------------------------------------------------------
(* detect_rotation *)

\* The inodes of the rotation check: st_ino is 0 on a file system that has
\* no file index to report.
RotationInodes == 0 .. 2

\* The offsets of the open handle: in the file, and beyond it by about the
\* slack after the file was cut
RotationPositions ==
    {n * k : n \in LineLengths, k \in 0 .. MaxLines}
        \cup {rotation_slack + d : d \in {0, 1, 25, 26, 50, 51}}

\* watch_file has opened a file and is about to check for rotation.
RotationInit ==
    /\ now = 0
    /\ error_contexts = << >>
    /\ state = DefaultWatcherState
    /\ disk = [primary |-> Missing, backup |-> Missing, tmp |-> Missing]
    /\ last = NoCall
    /\ \E held \in RotationInodes, position \in RotationPositions :
        wl = [NewLogFileManager EXCEPT
                !.pc = "rotation",
                !.lines_read = 1,
                !.current_file = [open |-> TRUE, inode |-> held,
                                  pos |-> position],
                !.current_inode = held,
                !.last_position = position] @@ NoHistory
    /\ \E exists \in BOOLEAN, inode \in RotationInodes,
          count \in 0 .. MaxLines, n \in LineLengths,
          fault \in {NoFault} \cup [site : {"stat", "seek"}, error : Errors] :
        fs = [exists |-> exists, inode |-> inode,
              files |-> [i \in RotationInodes |-> [k \in 1 .. count |-> n]],
              fault |-> fault]

\* LogFileManager.detect_rotation()
DetectRotation ==
    /\ last.op = "none"
    /\ last' = [NoCall EXCEPT !.op = "detect_rotation",
                              !.result = detect_rotation(wl, fs),
                              !.at = now]
    /\ UNCHANGED <<now, error_contexts, state, disk, fs, wl>>

RotationNext == DetectRotation

RotationSpec == RotationInit /\ [][RotationNext]_vars

\* C13: detect_rotation returns true when the path does not exist, when a
\* stat fails, when the inode at the path is not the inode of the open
\* handle, whatever that inode is, and when the inode is the same and the
\* size is below the read offset less the slack; it returns false when the
\* inode is the same and the size is not below the read offset.
C13_DetectRotation ==
    last.op = "detect_rotation" =>
        LET size == FileSize(fs.files[fs.inode])
            same == fs.inode = wl.current_file.inode
            sound == fs.exists /\ fs.fault.site = "none"
        IN  /\ ~fs.exists => last.result
            /\ (fs.exists /\ fs.fault.site = "stat") => last.result
            /\ (sound /\ ~same) => last.result
            /\ (sound /\ same /\ size < wl.current_file.pos - rotation_slack)
                    => last.result
            /\ (sound /\ same /\ size >= wl.current_file.pos)
                    => ~last.result

----------------------------------------------------------------------------
(* The state files: save_state and load_state *)

\* An open breaker of the file manager
OpenedBreaker ==
    file_manager :> [is_open |-> TRUE, failure_count |-> cb_failure_threshold,
                     last_failure_time |-> 1, last_success_time |-> 0,
                     next_attempt_time |-> 1 + cb_timeout]

\* States a process may hold and may have saved: with and without a read
\* position, a breaker entry, and what update_pool_state, set_alert_time and
\* add_request_to_window put into the fields of the alerting collaborator
StoredStates ==
    {[current_pool |-> IF filled THEN "blue" ELSE NoPool,
      last_alert_times |-> IF filled THEN "failover" :> 1 ELSE << >>,
      error_rate_window |-> IF filled THEN <<[is_error |-> TRUE]>> ELSE << >>,
      file_position |-> position,
      file_inode |-> inode,
      circuit_breaker_states |-> cbs,
      last_health_check |-> IF filled THEN 1 ELSE 0,
      startup_time |-> IF filled THEN 1 ELSE ProcessStart] :
        filled \in BOOLEAN, position \in SavedPositions,
        inode \in {NoInode, 1}, cbs \in {<< >>, OpenedBreaker}}

\* What the two state files may hold
StoredFiles == {Missing, Corrupt} \cup {JsonDump(st) : st \in StoredStates}

StoreInit ==
    /\ now = 1
    /\ error_contexts = << >>
    /\ last = NoCall
    /\ fs = [exists |-> FALSE, inode |-> 0, files |-> << >>, fault |-> NoFault]
    /\ wl = NewLogFileManager @@ NoHistory
    /\ state \in StoredStates
    /\ \E primary \in StoredFiles, backup \in StoredFiles :
        disk = [primary |-> primary, backup |-> backup, tmp |-> Missing]

\* StateManager.save_state(); outcome is how the call ends.
SaveState(outcome) ==
    /\ disk' = save_state(state, disk, outcome)
    /\ last' = [NoCall EXCEPT !.op = "save_state",
                              !.action = IF save_state_returns(outcome) = "raise"
                                         THEN "raise" ELSE outcome,
                              !.result = (save_state_returns(outcome) = "True"),
                              !.at = now]
    /\ UNCHANGED <<now, error_contexts, state, fs, wl>>

StoreNext ==
    \/ \E outcome \in SaveOutcomes : SaveState(outcome)
    \/ Restart

StoreSpec == StoreInit /\ [][StoreNext]_vars

\* C14: load_state makes the state the content of the primary file if that
\* file exists and loads, else the content of the backup file if that one
\* exists and loads, and returns true; if neither does, the state is the
\* fresh default state and load_state returns false.
C14_LoadFallback ==
    [][last'.op = "load_state" =>
        IF disk.primary.kind = "json"
        THEN StateDict(state') = disk.primary.data /\ last'.result
        ELSE IF disk.backup.kind = "json"
        THEN StateDict(state') = disk.backup.data /\ last'.result
        ELSE state' = WatcherState(now) /\ ~last'.result]_vars

\* The state was loaded from the backup because the primary was unusable.
C14_Witness ==
    /\ last.op = "load_state"
    /\ last.result
    /\ disk.primary.kind = "corrupt"
    /\ disk.backup.kind = "json"
    /\ StateDict(state) = disk.backup.data
    /\ state.file_position > 0
    /\ DOMAIN state.circuit_breaker_states # {}

\* C15: a load_state that follows a successful save_state yields the saved
\* state, equal in every field.
C15_RoundTrip ==
    [][(last.op = "save_state" /\ last.result /\ last'.op = "load_state") =>
        /\ last'.result
        /\ state' = state]_vars

\* A state with a breaker entry, no inode and filled fields of the alerting
\* collaborator was saved over another one, and loads as it was saved.
C15_Witness ==
    /\ last.op = "save_state"
    /\ last.result
    /\ disk.primary = JsonDump(state)
    /\ disk.backup.kind = "json"
    /\ disk.backup # disk.primary
    /\ load_state(WatcherState(now), disk, now).state = state
    /\ state.file_inode = NoInode
    /\ state.current_pool # NoPool
    /\ state.error_rate_window # << >>
    /\ DOMAIN state.circuit_breaker_states # {}

\* C16: whatever step save_state stops at, the primary file holds what it
\* held before the call or the complete serialized state; it changes only in
\* a call that ran to the rename, which moves the fully written temporary
\* file, and it is never left partially written.
C16_PrimaryAtomic ==
    [][last'.op = "save_state" =>
        /\ disk'.primary \in {disk.primary, JsonDump(state)}
        /\ disk'.primary # disk.primary =>
            /\ last'.result
            /\ disk'.primary = JsonDump(state)
            /\ disk'.tmp = Missing
        /\ ~last'.result => disk'.primary = disk.primary]_vars

\* A save stopped while the temporary file was being written, or before the
\* rename: the primary still holds an earlier complete state.
C16_Witness ==
    /\ last.op = "save_state"
    /\ ~last.result
    /\ last.action \in {"fail_temp", "fail_rename"}
    /\ disk.tmp \in {Corrupt, JsonDump(state)}
    /\ disk.primary.kind = "json"
    /\ disk.primary # JsonDump(state)
    /\ disk.backup = disk.primary

----------------------------------------------------------------------------
(* The ErrorHandler and the StateManager when save_state can stop at any of
   its steps; the calls follow each other within one second *)

\* The error the callers hand to handle_error here
SaveFaultErrors == { {"underlying stream is not seekable"} }

SaveFaultNext ==
    \/ \E error \in SaveFaultErrors, component \in Components, outcome \in SaveOutcomes :
            /\ WithinBounds(error, component)
            /\ HandleError(error, component, outcome)
    \/ \E component \in Components, outcome \in SaveOutcomes :
            RecordSuccess(component, outcome)
    \/ \E component \in Components, outcome \in SaveOutcomes :
            TriggerCircuitBreaker(component, outcome)
    \/ \E outcome \in SaveOutcomes : SaveState(outcome)

SaveFaultSpec == Init /\ [][SaveFaultNext]_vars

\* The breaker of the component the last call was about
LastBreaker == state.circuit_breaker_states[last.component]

\* C17: a save_state that fails at any step returns false to its caller and
\* raises nothing; handle_error, record_success and trigger_circuit_breaker
\* return normally whatever their save does, with the breaker update they
\* made held in memory.
C17_SaveFailureContained ==
    /\ last.op \in {"save_state", "handle_error", "record_success",
                    "trigger_circuit_breaker"} => last.action # "raise"
    /\ (last.op = "save_state" /\ last.action # "ok") => ~last.result
    /\ (last.op = "handle_error" /\ last.action = CIRCUIT_BREAKER) =>
            LastBreaker.is_open
    /\ last.op = "trigger_circuit_breaker" =>
            /\ LastBreaker.is_open
            /\ LastBreaker.next_attempt_time = last.at + cb_timeout
    /\ last.op = "record_success" =>
            /\ ~LastBreaker.is_open
            /\ \A key \in DOMAIN error_contexts : ~StartsWith(key, last.component)

\* handle_error opened the breaker and its save stopped while the temporary
\* file was written: the breaker is open in memory, the primary file does not
\* hold it.
C17_Witness ==
    /\ last.op = "handle_error"
    /\ last.action = CIRCUIT_BREAKER
    /\ last.attempt_count = cb_failure_threshold
    /\ LastBreaker.is_open
    /\ LastBreaker.last_failure_time = last.at
    /\ disk.tmp = Corrupt
    /\ disk.primary # JsonDump(state)

\* C18: _close_file closes the handle on every path: the tailer never drops
\* a handle it has not closed, also when tell() fails on it.
C18_CloseReleases ==
    [][(wl.current_file.open /\ ~wl'.current_file.open) =>
        wl'.leaked = wl.leaked]_vars

----------------------------------------------------------------------------
(* The loop and its teardown *)

MaxCloses == 2

\* LogFileManager.__del__(): _close_file() once more, when the loop has been
\* given up. attempt_count of the call record counts the calls in a row.
Del ==
    /\ last.op = "__del__" => last.attempt_count < MaxCloses
    /\ LET c == _close_file(wl, state, fs.fault)
       IN  /\ wl' = [c.wl EXCEPT !.pc = "deleted"]
           /\ state' = c.state
    /\ last' = [NoCall EXCEPT
                    !.op = "__del__",
                    !.attempt_count = IF last.op = "__del__"
                                      THEN last.attempt_count + 1 ELSE 1,
                    !.at = now]
    /\ UNCHANGED <<now, error_contexts, disk, fs>>

TeardownNext ==
    \/ WatchStep
    \/ AppendLine
    \/ StartFault
    \/ Del

TeardownSpec == WatchInit /\ [][TeardownNext]_vars

\* The fields _close_file may touch
CloseFields(w, st) ==
    <<w.current_file, w.current_inode, w.last_position, st.file_position,
      st.file_inode>>

\* C19: a _close_file call made when no file is open, as the second of two
\* calls in a row is, changes neither the handle, the inode and the last
\* position of the tailer nor the saved position and inode; after any call
\* no file is open.
C19_CloseIdempotent ==
    [][(last'.op = "__del__" /\ last' # last) =>
        /\ ~wl'.current_file.open
        /\ wl'.current_inode = NoInode
        /\ (~wl.current_file.open \/ last.op = "__del__") =>
                CloseFields(wl', state') = CloseFields(wl, state)]_vars

\* Two calls in a row, the first of which closed a file that had been read
\* past the saved position.
C19_Witness ==
    /\ last.op = "__del__"
    /\ last.attempt_count = 2
    /\ ~wl.current_file.open
    /\ wl.last_position > 0
    /\ state.file_position = wl.last_position
    /\ ~wl.leaked

----------------------------------------------------------------------------
(* get_backoff_delay on its own *)

MaxBackoffAttempt == 64

\* The attempt numbers handed to get_backoff_delay: the first ones, and those
\* around the largest power of two a float holds
BackoffAttempts ==
    (1 .. MaxBackoffAttempt) \cup (FloatMaxExp - 1 .. FloatMaxExp + 2)

BackoffInit ==
    /\ now = 0
    /\ error_contexts = << >>
    /\ state = DefaultWatcherState
    /\ disk = [primary |-> Missing, backup |-> Missing, tmp |-> Missing]
    /\ fs = << >>
    /\ wl = << >>
    /\ \E attempt \in BackoffAttempts :
        last = [NoCall EXCEPT !.attempt_count = attempt]

\* ErrorHandler.get_backoff_delay(attempt): the call record holds the delay
\* returned as its result, or the exception as its action.
GetBackoffDelay ==
    /\ last.op = "none"
    /\ LET d == get_backoff_delay(last.attempt_count)
       IN  last' = [last EXCEPT
                        !.op = "get_backoff_delay",
                        !.action = IF d.raised THEN "OverflowError" ELSE "none",
                        !.result = d.delay]
    /\ UNCHANGED <<now, error_contexts, state, disk, fs, wl>>

BackoffNext == GetBackoffDelay

BackoffSpec == BackoffInit /\ [][BackoffNext]_vars

\* min(base * 2^(attempt-1), cap); beyond 2^cap, which is above cap, the
\* power is not computed
ClaimedDelay(attempt) ==
    Min(base_backoff * 2^Min(attempt - 1, max_backoff), max_backoff)

\* C20: get_backoff_delay(attempt) is min(base * 2^(attempt-1), cap) for
\* every attempt >= 1: base for the first attempt, never above cap, and not
\* below the delay of the attempt before.
C20_BackoffDelay ==
    last.op = "get_backoff_delay" =>
        /\ last.action = "none"
        /\ last.result = ClaimedDelay(last.attempt_count)
        /\ last.attempt_count = 1 => last.result = base_backoff
        /\ last.result <= max_backoff
        /\ last.attempt_count > 1 =>
                ClaimedDelay(last.attempt_count - 1) <= last.result

----------------------------------------------------------------------------
(* The breaker and the state files *)

\* C21: every breaker that is open has its next attempt time after its last
\* failure time.
C21_OpenDeadline ==
    \A component \in DOMAIN state.circuit_breaker_states :
        LET cb_state == state.circuit_breaker_states[component]
        IN  cb_state.is_open =>
                cb_state.next_attempt_time > cb_state.last_failure_time

\* A breaker opened by the fifth failure after time had passed, still open.
C21_Witness ==
    /\ last.op = "handle_error"
    /\ last.action = CIRCUIT_BREAKER
    /\ LastBreaker.is_open
    /\ LastBreaker.last_failure_time > 0
    /\ LastBreaker.next_attempt_time = LastBreaker.last_failure_time + cb_timeout

\* C22: a failure of tell() or readline() in _read_lines that is classified
\* as a stream that is not seekable reaches watch_file with the handle closed
\* and with no seek() made on that handle after the failure.
C22_NoSeekAfterUnseekable ==
    (wl.pc = "except" /\ classify_error(wl.exc) = stream_error) =>
        /\ ~wl.reseek
        /\ ~wl.current_file.open

----------------------------------------------------------------------------
(* Reading a file that grew after it was opened at offset 0 *)

MaxCadenceLines == 51

\* "every 50 lines": the cadence the comment on the checkpoint names
checkpoint_every == 50

\* The lengths of the first line and of the lines after it
CadenceLengths == {1, 7, 25, 50}

\* The file: a first line and count lines of one length after it
CadenceContents ==
    {<<first>> \o [k \in 1 .. count |-> n] :
        first \in CadenceLengths, n \in CadenceLengths,
        count \in 0 .. MaxCadenceLines}

CadenceInit ==
    /\ now = 0
    /\ error_contexts = << >>
    /\ state = update_file_position(DefaultWatcherState, 0, 1)
    /\ disk = [primary |-> Missing, backup |-> Missing, tmp |-> Missing]
    /\ last = NoCall
    /\ \E content \in CadenceContents :
        fs = [exists |-> TRUE, inode |-> 1, files |-> <<content>>,
              fault |-> NoFault]
    /\ wl = [NewLogFileManager EXCEPT
                !.pc = "read",
                !.current_file = [open |-> TRUE, inode |-> 1, pos |-> 0],
                !.current_inode = 1] @@ NoHistory

CadenceNext == ReadLine

CadenceSpec == CadenceInit /\ [][CadenceNext]_vars

\* The number of lines of the file that end after offset a and at or before
\* offset b
LinesBetween(lines, a, b) ==
    Cardinality({i \in 1 .. Len(lines) :
                    LET e == SumSeq(SubSeq(lines, 1, i)) IN a < e /\ e <= b})

\* C23: the saved position follows the reading at a fixed cadence: the
\* tailer is never checkpoint_every or more read lines ahead of the
\* file_position of the state manager.
C23_CheckpointCadence ==
    wl.current_file.open =>
        LinesBetween(fs.files[wl.current_file.inode], state.file_position,
                     wl.last_position) < checkpoint_every

----------------------------------------------------------------------------
(* Failure streaks of the loop *)

\* C24: read attempts that keep failing with a stream error, no line being
\* read in between, are one streak: the attempt count of
\* ("file_manager", stream_error) goes beyond 1, so that RETRY_IMMEDIATE is
\* followed by a delayed action, and reaches the threshold, at which the
\* breaker opens.
C24_FailureStreak ==
    ([]<><<HandleFailure /\ classify_error(wl.exc) = stream_error>>_vars) =>
        <>(/\ last.op = "handle_error"
           /\ last.error_type = stream_error
           /\ last.attempt_count >= cb_failure_threshold
           /\ last.action = CIRCUIT_BREAKER)

\* C25: when the loop handles RETRY_WITH_BACKOFF it sleeps
\* get_backoff_delay(n), n being the attempt count of the failure just
\* handled.
C25_BackoffOfFailure ==
    [][(/\ wl.pc = "except"
        /\ wl'.pc = "open"
        /\ last'.action = RETRY_WITH_BACKOFF) =>
            now' = SleepUntil(now, get_backoff_delay(last'.attempt_count).delay)]_vars

----------------------------------------------------------------------------
(* The ErrorHandler called for two components, one name a prefix of the
   other *)

file == <<"f","i","l","e">>

FrameComponents == {file, file_manager}

FrameNext ==
    \/ \E error \in SaveFaultErrors, component \in FrameComponents :
            /\ WithinBounds(error, component)
            /\ HandleError(error, component, "ok")
    \/ \E component \in FrameComponents : RecordSuccess(component, "ok")
    \/ \E component \in FrameComponents : TriggerCircuitBreaker(component, "ok")

FrameSpec == Init /\ [][FrameNext]_vars

\* C26: record_success(c) changes neither the ErrorContext entries nor the
\* breaker of any component other than c.
C26_RecordSuccessFrame ==
    [][last'.op = "record_success" =>
        /\ \A key \in DOMAIN error_contexts :
                error_contexts[key].component # last'.component =>
                    /\ key \in DOMAIN error_contexts'
                    /\ error_contexts'[key] = error_contexts[key]
        /\ \A other \in DOMAIN state.circuit_breaker_states :
                other # last'.component =>
                    state'.circuit_breaker_states[other] =
                        state.circuit_breaker_states[other]]_vars

----------------------------------------------------------------------------
(* The state files across a save *)

\* A file that load_state loads
Loadable(f) == f.kind = "json"

\* C27: if the primary or the backup file is loadable before a save_state
\* call, then one of them is loadable wherever the call stops, so that a
\* load_state that follows does not fall back to the default state.
C27_OneLoadableCopy ==
    [][(last'.op = "save_state"
            /\ (Loadable(disk.primary) \/ Loadable(disk.backup))) =>
        /\ Loadable(disk'.primary) \/ Loadable(disk'.backup)
        /\ load_state(WatcherState(now), disk', now).result]_vars

\* The breaker of a component in a breaker map; a component without an
\* entry has the breaker that get_circuit_breaker creates for it
BreakerOf(cbs, component) ==
    IF component \in DOMAIN cbs THEN cbs[component]
    ELSE DefaultCircuitBreakerState

\* C28: after a handle_error, record_success or trigger_circuit_breaker call
\* that changed the breaker of its component, the saves succeeding, the
\* primary state file holds that breaker as it is in memory: a process
\* started then resumes with it.
C28_BreakerPersisted ==
    [][(/\ last'.op \in {"handle_error", "record_success",
                         "trigger_circuit_breaker"}
        /\ BreakerOf(state'.circuit_breaker_states, last'.component) #
                BreakerOf(state.circuit_breaker_states, last'.component)) =>
            /\ disk'.primary.kind = "json"
            /\ BreakerOf(load_state(WatcherState(now), disk', now).state
                            .circuit_breaker_states, last'.component) =
                    BreakerOf(state'.circuit_breaker_states, last'.component)]_vars

====
